---- MODULE Spec2Model ----
(***************************************************************************)
(* Model of pfun_data/tools.py: the two-stage csv2parquet pipeline.        *)
(* Stage 1 (extractFromZip) fans the members of a zip archive out over a   *)
(* process pool, stage 2 (convertCsvToParquet) fans the discovered .csv    *)
(* files out over a second pool; Csv2ParquetPipeline.__call__ runs them in *)
(* order.  The filesystem is part of the state: the extraction directory   *)
(* maps member names to on-disk sizes, the parquet tree is a set of        *)
(* directories plus the content of each destination file.                  *)
(***************************************************************************)
EXTENDS Integers, Sequences, FiniteSets, TLC

\* ------------------------------------------------------------------ bounds
\* Longest archive member list.
MaxMembers == 2
\* Number of times the pipeline object is called.
MaxCalls == 2

\* ProcessPoolExecutor(max_workers=4)
MaxWorkers == 4
\* Deepest nesting of a file below the extraction directory, and the most
\* files a directory tree holds, where the conversion stage is run alone.
MaxDepth == 2
MaxFiles == 2
\* Members of the archive where the pool is given more tasks than workers.
PoolTasks == 5

\* ------------------------------------------------------------ the universe
\* Member names: relative paths inside the archive, as (directories, stem, suffix).
N1 == [dirs |-> <<"a", "x">>, stem |-> "t", ext |-> "csv"]
N2 == [dirs |-> <<"b", "x">>, stem |-> "t", ext |-> "csv"]
Names == {N1, N2}

\* A path that does not exist has no size.
Absent == 0 - 1
\* A task that has not looked at its destination yet.
NotSeen == 0 - 2

\* ZipInfo entries: each name with the uncompressed size the archive records
\* for it (ZipInfo.file_size).
RecordedSize(n) == IF n = N1 THEN 1 ELSE 2
Members == {[filename |-> n, file_size |-> RecordedSize(n)] : n \in Names}

\* On-disk states of a file of the extraction directory before the first
\* call: missing, empty, or of one of the recorded sizes.
DiskSizes == {Absent, 0} \cup {m.file_size : m \in Members}

\* Name of the extraction directory (the last component of csv_path).
CsvDirName == "csv"

\* Conversion output roots: the one given at construction and an override.
Roots == {"pq", "pq2"}
None == "None"

VARIABLES
    archive,      \* infolist(): the members of the archive, as stored
    zip_ok,       \* whether zipfile.ZipFile(zip_path) can be opened
    csv_fs,       \* extraction directory: member name -> on-disk size or Absent
    pq_dirs,      \* existing directories of the parquet trees (paths)
    pq_files,     \* destination file -> content ("absent", "old" or its source)
    self,         \* the Csv2ParquetPipeline object's fields
    pc,           \* where the main process is
    ret,          \* what the last __call__ ended with
    calls,        \* number of __call__ invocations so far
    ex_futs,      \* futures of the extraction stage, by position in infolist
    cv_futs,      \* futures of the conversion stage, by source file
    errlog,       \* logging.error records written by the stage loops of this call
    prev_sizes    \* csv_fs when the previous extraction stage ended (history)

vars == <<archive, zip_ok, csv_fs, pq_dirs, pq_files, self, pc, ret, calls,
          ex_futs, cv_futs, errlog, prev_sizes>>

\* ------------------------------------------------------------ path helpers
\* csv_file.parent.name for csv_file = csv_path / member
\* (mutant) the first directory of the relative path instead of the last.
ParentNameFirst(n) == IF n.dirs = <<>> THEN CsvDirName ELSE n.dirs[1]

ParentName(n) == IF n.dirs = <<>> THEN CsvDirName ELSE n.dirs[Len(n.dirs)]

\* parquet_path.joinpath(csv_file.parent.name, csv_file.stem + ".parquet")
ParquetFile(root, n) ==
    [root |-> root, dir |-> ParentName(n), stem |-> n.stem, ext |-> "parquet"]

\* The directory a destination file lies in.
ParentDir(dest) == <<dest.root, dest.dir>>

Dests == {ParquetFile(r, n) : r \in Roots, n \in Names}

\* A printable identity of a source file, used as the content of its output.
PathStr(n) == ToString(n)

\* ------------------------------------------------- the single-item extractor
\* (mutant) the size comparison left out of the skip test.
ExtractBranchNoSize(seen, skip_existing, file_size) ==
    IF seen = Absent THEN "stat_raises"
    ELSE IF skip_existing THEN "skip"
    ELSE "extract"

\* tools.py 57-59: all([exists(), skip_existing is True, stat().st_size == file_size]).
\* The list is built before all() looks at it, so stat() runs whether or not
\* the file exists, and Path.stat() of a missing path raises FileNotFoundError.
ExtractBranch(seen, skip_existing, file_size) ==
    IF seen = Absent THEN "stat_raises"
    ELSE IF skip_existing /\ seen = file_size THEN "skip"
    ELSE "extract"

\* (mutant) a handler that catches every exception.
CatchesAll(exc) == TRUE

\* tools.py 65 and 100: the only handler of both task functions.
Catches(exc) == exc = "KeyboardInterrupt"

\* What the pool's future holds when the task function ends: `exc` is the
\* exception raised in the try block ("none" when the body ran through) and
\* `value` the value returned.  A caught interrupt runs sys.exit(0), and the
\* SystemExit it raises leaves the function like any other exception: the pool
\* worker stores it in the future and goes on to its next task.
TaskOutcome(exc, value) ==
    IF exc = "none" THEN [exception |-> "none", result |-> value]
    ELSE IF Catches(exc) THEN [exception |-> "SystemExit", result |-> "none"]
    ELSE [exception |-> exc, result |-> "none"]

\* Sizes a destination can be left with when zipref.extract() stops early
\* (a fault or an interrupt): untouched, or truncated and partly written.
PartialSizes(old, file_size) == {old} \cup {s \in 0..file_size : s < file_size}

\* ------------------------------------------------- the single-file converter
\* tools.py 94: all([skip_existing is True, parquet_file.exists()])
\* (mutant) the destination is not looked at: every task converts.
ConvertBranchNoSkip(skip_existing, exists) == "convert"

ConvertBranch(skip_existing, exists) ==
    IF skip_existing /\ exists THEN "skip" ELSE "convert"

\* tools.py 98: pd.read_csv of an empty file raises EmptyDataError.
ReadFault(size) == IF size = 0 THEN "EmptyDataError" ELSE "none"

\* tools.py 99: df.to_parquet(parquet_file) opens the destination for writing
\* and creates no directory: a missing parent directory is an OSError.
WriteFault(dest, dirs) == IF ParentDir(dest) \in dirs THEN "none" ELSE "OSError"

\* ------------------------------------------------------------ the pool
\* A submitted task nobody has started.  `seen` is what the task found at its
\* destination when it looked: an on-disk size for an extraction task, the
\* content of the destination file for a conversion task.
PendingExtract == [st |-> "pending", seen |-> NotSeen, branch |-> "none",
                   exception |-> "none", result |-> "none"]
PendingConvert == [st |-> "pending", seen |-> "unseen", branch |-> "none",
                   exception |-> "none", result |-> "none"]

Running(futs) == {i \in DOMAIN futs : futs[i].st = "running"}

\* A pending task is taken by a worker only while one of the max_workers is free.
\* (mutant) a pool that starts every submitted task at once.
WorkerFreeAlways(futs) == TRUE

WorkerFree(futs) == Cardinality(Running(futs)) < MaxWorkers

\* (mutant) the loop asks for future.result(), which re-raises.
LoopStepRaise(fut) == IF fut.exception # "none" THEN "raise" ELSE "pass"

\* tools.py 81-84 and 140-145: what the as_completed loop does with a future.
LoopStep(fut) == IF fut.exception # "none" THEN "log_error" ELSE "pass"

\* (mutant) the stage does not wait for its tasks.
StageDrainedNoWait(futs) == TRUE

\* (mutant) the stage is left as soon as one task has failed.
StageDrainedFirstFailure(futs) ==
    \/ \A i \in DOMAIN futs : futs[i].st = "done"
    \/ \E i \in DOMAIN futs : futs[i].st = "done" /\ futs[i].exception # "none"

\* tools.py 75-85 and 132-145: the as_completed loop goes through every future
\* and leaving the `with` block shuts the executor down with wait=True.
StageDrained(futs) == \A i \in DOMAIN futs : futs[i].st = "done"

\* The futures list is local to the stage function: once the stage has
\* returned only the fact that a task has ended or not is left of it.
Forget(futs, blank) ==
    [i \in DOMAIN futs |->
        IF futs[i].st = "done" THEN [blank EXCEPT !.st = "done"] ELSE futs[i]]

Logged(futs) == Cardinality({i \in DOMAIN futs : LoopStep(futs[i]) = "log_error"})
Raising(futs) == \E i \in DOMAIN futs : LoopStep(futs[i]) = "raise"

\* tools.py 124-129: every file below csv_path whose name ends with ".csv".
\* (mutant) the suffix test left out: every file is taken.
DiscoverAll(fs) == {n \in DOMAIN fs : fs[n] # Absent}

Discover(fs) == {n \in DOMAIN fs : fs[n] # Absent /\ n.ext = "csv"}

\* ------------------------------------------------------------ initial states
\* Tasks are started in any order, so member lists that differ only in the
\* order of their entries behave alike: one list per multiset is kept.
Rank(m) == m.file_size
Sorted(a) == \A i \in 1..(Len(a) - 1) : Rank(a[i]) <= Rank(a[i + 1])
Archives == {a \in UNION {[1..k -> Members] : k \in 0..MaxMembers} : Sorted(a)}

\* The parquet tree before the first call: the override root is untouched,
\* the configured root is missing, or holds the directories (and
\* possibly older files) of an earlier run.
PqDirsOf(root) == {<<root>>} \cup {ParentDir(ParquetFile(root, n)) : n \in Names}
NoPqFiles == [d \in Dests |-> "absent"]
OldPqFiles == [d \in Dests |-> IF d.root = "pq" THEN "old" ELSE "absent"]
PqInit == {[dirs |-> {}, files |-> NoPqFiles],
           [dirs |-> PqDirsOf("pq"), files |-> NoPqFiles],
           [dirs |-> PqDirsOf("pq"), files |-> OldPqFiles]}

Init ==
    /\ zip_ok \in BOOLEAN
    /\ archive \in Archives
    /\ (~zip_ok => archive = <<>>)
    /\ csv_fs \in [Names -> DiskSizes]
    /\ \E p \in PqInit : pq_dirs = p.dirs /\ pq_files = p.files
    /\ \E sk \in BOOLEAN :
          self = [zip_path |-> "zip", csv_path |-> CsvDirName,
                  parquet_path |-> "pq", skip_existing |-> sk]
    /\ pc = "idle"
    /\ ret = "none"
    /\ calls = 0
    /\ ex_futs = <<>>
    /\ cv_futs = <<>>
    /\ errlog = 0
    /\ prev_sizes = csv_fs

\* ------------------------------------------------------------ orchestrator
\* (mutant) the override is stored in the wrong field as well.
OverrideBoth(obj, parquet_path) ==
    IF parquet_path # None
    THEN [obj EXCEPT !.parquet_path = parquet_path, !.csv_path = parquet_path]
    ELSE obj

\* tools.py 162-163: the override replaces self.parquet_path.
Override(obj, parquet_path) ==
    IF parquet_path # None THEN [obj EXCEPT !.parquet_path = parquet_path]
    ELSE obj

\* (mutant) a fault of the archive is swallowed and the stage goes on.
InventoryFaultSwallowed(ok) == "none"

\* tools.py 73-74: zipfile.ZipFile(zip_path) and infolist() raise when the
\* archive cannot be opened or its table of contents cannot be read.
InventoryFault(ok) == IF ok THEN "none" ELSE "BadZipFile"

\* (mutant) the skip test is fed the state seen when the batch was submitted.
ObservedAtSubmit(now, submitted) == submitted

\* tools.py 55-59 and 93-94: exists() and stat() are called inside the task,
\* when a worker runs it, and read the filesystem as it is then.
Observed(now, submitted) == now

\* Csv2ParquetPipeline.__call__(parquet_path), up to the submission of the
\* extraction tasks: the override is stored, the archive is opened and its
\* member list read (a fault here leaves the call), one task per member.
Call(override) ==
    /\ pc \in {"idle", "returned", "raised"}
    /\ calls < MaxCalls
    /\ calls' = calls + 1
    /\ self' = Override(self, override)
    /\ errlog' = 0
    /\ cv_futs' = <<>>
    /\ IF InventoryFault(zip_ok) = "none"
       THEN /\ ex_futs' = [i \in 1..Len(archive) |-> PendingExtract]
            /\ pc' = "extract"
            /\ ret' = "none"
       ELSE /\ ex_futs' = <<>>
            /\ pc' = "raised"
            /\ ret' = InventoryFault(zip_ok)
    /\ UNCHANGED <<archive, zip_ok, csv_fs, pq_dirs, pq_files, prev_sizes>>

\* A pool worker takes extraction task i and runs _extract_single_zipitem up
\* to the decision of lines 57-61.
StartExtract(i) ==
    /\ pc = "extract"
    /\ i \in DOMAIN ex_futs
    /\ ex_futs[i].st = "pending"
    /\ WorkerFree(ex_futs)
    /\ LET item == archive[i]
           seen == Observed(csv_fs[item.filename], prev_sizes[item.filename])
           br == ExtractBranch(seen, self.skip_existing, item.file_size)
           out == IF br = "skip" THEN TaskOutcome("none", "True")
                  ELSE TaskOutcome("FileNotFoundError", "none")
       IN ex_futs' = [ex_futs EXCEPT ![i] =
              IF br = "extract"
              THEN [@ EXCEPT !.st = "running", !.seen = seen, !.branch = br]
              ELSE [st |-> "done", seen |-> seen, branch |-> br,
                    exception |-> out.exception, result |-> out.result]]
    /\ UNCHANGED <<archive, zip_ok, csv_fs, pq_dirs, pq_files, self, pc, ret,
                   calls, cv_futs, errlog, prev_sizes>>

\* Lines 62-64 of a running extraction task: zipref.extract() writes the
\* member ("ok"), stops on a fault of the archive or the disk ("fault"), or
\* is hit by a KeyboardInterrupt ("interrupt").
FinishExtract(i, ev) ==
    /\ pc = "extract"
    /\ i \in DOMAIN ex_futs
    /\ ex_futs[i].st = "running"
    /\ LET item == archive[i]
           out == IF ev = "ok" THEN TaskOutcome("none", "None")
                  ELSE IF ev = "fault" THEN TaskOutcome("BadZipFile", "none")
                  ELSE TaskOutcome("KeyboardInterrupt", "none")
       IN /\ ex_futs' = [ex_futs EXCEPT ![i] =
                 [@ EXCEPT !.st = "done", !.exception = out.exception,
                           !.result = out.result]]
          /\ IF ev = "ok"
             THEN csv_fs' = [csv_fs EXCEPT ![item.filename] = item.file_size]
             ELSE \E s \in PartialSizes(csv_fs[item.filename], item.file_size) :
                     csv_fs' = [csv_fs EXCEPT ![item.filename] = s]
    /\ UNCHANGED <<archive, zip_ok, pq_dirs, pq_files, self, pc, ret, calls,
                   cv_futs, errlog, prev_sizes>>

\* extractFromZip returns: every future has been looked at by the loop of
\* lines 81-84 and the executor has shut down.
EndExtract ==
    /\ pc = "extract"
    /\ StageDrained(ex_futs)
    /\ errlog' = errlog + Logged(ex_futs)
    /\ IF Raising(ex_futs)
       THEN pc' = "raised" /\ ret' = "task_exception"
       ELSE pc' = "extracted" /\ ret' = ret
    /\ prev_sizes' = csv_fs
    /\ ex_futs' = Forget(ex_futs, PendingExtract)
    /\ UNCHANGED <<archive, zip_ok, csv_fs, pq_dirs, pq_files, self, calls,
                   cv_futs>>

\* convertCsvToParquet up to the submission of the conversion tasks: the
\* output root is created (mkdir(parents=False, exist_ok=True)), the files
\* are discovered, one task per file.
BeginConvert ==
    /\ pc = "extracted"
    /\ pq_dirs' = pq_dirs \cup {<<self.parquet_path>>}
    /\ cv_futs' = [n \in Discover(csv_fs) |-> PendingConvert]
    /\ pc' = "convert"
    /\ UNCHANGED <<archive, zip_ok, csv_fs, pq_files, self, ret, calls,
                   ex_futs, errlog, prev_sizes>>

\* A pool worker takes the conversion task of source n and runs
\* _convert_single_csv_to_parquet up to the decision of lines 93-96.
StartConvert(n) ==
    /\ pc = "convert"
    /\ n \in DOMAIN cv_futs
    /\ cv_futs[n].st = "pending"
    /\ WorkerFree(cv_futs)
    /\ LET dest == ParquetFile(self.parquet_path, n)
           seen == pq_files[dest]
           br == ConvertBranch(self.skip_existing, seen # "absent")
           out == TaskOutcome("none", "None")
       IN cv_futs' = [cv_futs EXCEPT ![n] =
              IF br = "convert"
              THEN [@ EXCEPT !.st = "running", !.seen = seen, !.branch = br]
              ELSE [st |-> "done", seen |-> seen, branch |-> br,
                    exception |-> out.exception, result |-> out.result]]
    /\ UNCHANGED <<archive, zip_ok, csv_fs, pq_dirs, pq_files, self, pc, ret,
                   calls, ex_futs, errlog, prev_sizes>>

\* Lines 97-99 of a running conversion task: read_csv, then to_parquet; or a
\* KeyboardInterrupt before the write.
FinishConvert(n, ev) ==
    /\ pc = "convert"
    /\ n \in DOMAIN cv_futs
    /\ cv_futs[n].st = "running"
    /\ LET dest == ParquetFile(self.parquet_path, n)
           rd == ReadFault(csv_fs[n])
           wr == WriteFault(dest, pq_dirs)
           exc == IF ev = "interrupt" THEN "KeyboardInterrupt"
                  ELSE IF rd # "none" THEN rd ELSE wr
           out == TaskOutcome(exc, "None")
       IN /\ cv_futs' = [cv_futs EXCEPT ![n] =
                 [@ EXCEPT !.st = "done", !.exception = out.exception,
                           !.result = out.result]]
          /\ pq_files' = IF exc = "none"
                         THEN [pq_files EXCEPT ![dest] = PathStr(n)]
                         ELSE pq_files
    /\ UNCHANGED <<archive, zip_ok, csv_fs, pq_dirs, self, pc, ret, calls,
                   ex_futs, errlog, prev_sizes>>

\* convertCsvToParquet returns and __call__ returns self.
EndConvert ==
    /\ pc = "convert"
    /\ StageDrained(cv_futs)
    /\ errlog' = errlog + Logged(cv_futs)
    /\ IF Raising(cv_futs)
       THEN pc' = "raised" /\ ret' = "task_exception"
       ELSE pc' = "returned" /\ ret' = "self"
    /\ cv_futs' = Forget(cv_futs, PendingConvert)
    /\ UNCHANGED <<archive, zip_ok, csv_fs, pq_dirs, pq_files, self, calls,
                   ex_futs, prev_sizes>>

Next ==
    \/ \E ov \in {None, "pq2"} : Call(ov)
    \/ \E i \in DOMAIN ex_futs : StartExtract(i)
    \/ \E i \in DOMAIN ex_futs, ev \in {"ok", "fault", "interrupt"} : FinishExtract(i, ev)
    \/ EndExtract
    \/ BeginConvert
    \/ \E n \in DOMAIN cv_futs : StartConvert(n)
    \/ \E n \in DOMAIN cv_futs, ev \in {"ok", "interrupt"} : FinishConvert(n, ev)
    \/ EndConvert

Spec == Init /\ [][Next]_vars

\* ------------------------------------------------------- fair scheduling
\* A step of a pool worker: a free worker takes a pending task, a running
\* task comes to its end. The operating system schedules the worker
\* processes fairly, and every task is assumed to terminate.
PoolStep ==
    \/ \E i \in DOMAIN ex_futs : StartExtract(i)
    \/ \E i \in DOMAIN ex_futs, ev \in {"ok", "fault", "interrupt"} : FinishExtract(i, ev)
    \/ \E n \in DOMAIN cv_futs : StartConvert(n)
    \/ \E n \in DOMAIN cv_futs, ev \in {"ok", "interrupt"} : FinishConvert(n, ev)

\* A step of the main process inside a call: as_completed has yielded the
\* last future and the stage returns, or the next stage begins.
MainStep == EndExtract \/ BeginConvert \/ EndConvert

\* The pipeline object before the one call that is followed to its end.
InitOnce ==
    /\ zip_ok \in BOOLEAN
    /\ archive \in Archives
    /\ (~zip_ok => archive = <<>>)
    /\ csv_fs \in [Names -> DiskSizes]
    /\ \E p \in PqInit : pq_dirs = p.dirs /\ pq_files = p.files
    /\ \E sk \in BOOLEAN :
          self = [zip_path |-> "zip", csv_path |-> CsvDirName,
                  parquet_path |-> "pq", skip_existing |-> sk]
    /\ pc = "idle"
    /\ ret = "none"
    /\ calls = MaxCalls - 1
    /\ ex_futs = <<>>
    /\ cv_futs = <<>>
    /\ errlog = 0
    /\ prev_sizes = csv_fs

\* Whether and when the pipeline is called is up to its user: no fairness
\* on Call.
FairSpec == InitOnce /\ [][Next]_vars /\ WF_vars(PoolStep) /\ WF_vars(MainStep)

\* ---------------------------------------------- the conversion stage alone
\* convertCsvToParquet(csv_path, parquet_path, skip_existing) run on a
\* directory tree of any shape: files of either suffix, directly in the
\* directory or up to MaxDepth directories below it.
DirNames == {"a", "x"}
Suffixes == {"csv", "txt"}
DirSeqs == UNION {[1..k -> DirNames] : k \in 0..MaxDepth}
TreeNames == {[dirs |-> d, stem |-> "t", ext |-> e] : d \in DirSeqs, e \in Suffixes}

RECURSIVE TreesUpTo(_)
TreesUpTo(k) ==
    IF k = 0 THEN {{}}
    ELSE LET smaller == TreesUpTo(k - 1)
         IN smaller \cup {t \cup {n} : t \in smaller, n \in TreeNames}
Trees == TreesUpTo(MaxFiles)

\* The parquet tree of the stage run alone: every path the stage can name.
TreeDests == {[root |-> "pq", dir |-> d, stem |-> "t", ext |-> "parquet"] :
                 d \in DirNames \cup {CsvDirName}}
TreePqInit == {[dirs |-> {}, files |-> [d \in TreeDests |-> "absent"]],
               [dirs |-> {<<"pq">>} \cup {ParentDir(d) : d \in TreeDests},
                files |-> [d \in TreeDests |-> "absent"]],
               [dirs |-> {<<"pq">>} \cup {ParentDir(d) : d \in TreeDests},
                files |-> [d \in TreeDests |-> "old"]]}

\* The state in which convertCsvToParquet is entered: the extraction stage
\* (of an archive without members) has returned, the extraction directory
\* holds a tree of non-empty files; an empty tree stands for a missing or
\* empty directory.
InitConvert ==
    /\ zip_ok = TRUE
    /\ archive = <<>>
    /\ \E tree \in Trees : csv_fs = [n \in tree |-> 1]
    /\ \E p \in TreePqInit : pq_dirs = p.dirs /\ pq_files = p.files
    /\ \E sk \in BOOLEAN :
          self = [zip_path |-> "zip", csv_path |-> CsvDirName,
                  parquet_path |-> "pq", skip_existing |-> sk]
    /\ pc = "extracted"
    /\ ret = "none"
    /\ calls = 1
    /\ ex_futs = <<>>
    /\ cv_futs = <<>>
    /\ errlog = 0
    /\ prev_sizes = csv_fs

NextConvert ==
    \/ BeginConvert
    \/ \E n \in DOMAIN cv_futs : StartConvert(n)
    \/ \E n \in DOMAIN cv_futs, ev \in {"ok", "interrupt"} : FinishConvert(n, ev)
    \/ EndConvert

SpecConvert == InitConvert /\ [][NextConvert]_vars

\* ------------------------------------------- more tasks than pool workers
\* One call on an archive of PoolTasks members of different names, each
\* already in the extraction directory as an empty file, so that every
\* extraction task has work to do and every member is then converted.
PoolNames == {[dirs |-> <<"d">>, stem |-> ToString(k), ext |-> "csv"] :
                 k \in 1..PoolTasks}
PoolArchive == [k \in 1..PoolTasks |->
                   [filename |-> [dirs |-> <<"d">>, stem |-> ToString(k), ext |-> "csv"],
                    file_size |-> 1]]
PoolDests == {ParquetFile(r, n) : r \in Roots, n \in PoolNames}

InitPool ==
    /\ zip_ok = TRUE
    /\ archive = PoolArchive
    /\ csv_fs = [n \in PoolNames |-> 0]
    /\ pq_dirs = {<<"pq">>} \cup {ParentDir(ParquetFile("pq", n)) : n \in PoolNames}
    /\ pq_files = [d \in PoolDests |-> "absent"]
    /\ \E sk \in BOOLEAN :
          self = [zip_path |-> "zip", csv_path |-> CsvDirName,
                  parquet_path |-> "pq", skip_existing |-> sk]
    /\ pc = "idle"
    /\ ret = "none"
    /\ calls = MaxCalls - 1
    /\ ex_futs = <<>>
    /\ cv_futs = <<>>
    /\ errlog = 0
    /\ prev_sizes = csv_fs

SpecPool == InitPool /\ [][Next]_vars

\* ------------------------------------------------- one name, several members
\* One call on an archive that lists the name of N1 three times, twice with
\* one recorded size and once with another (a zip archive may hold several
\* entries of one name; infolist() returns them all).
DupArchive == <<[filename |-> N1, file_size |-> 1],
                [filename |-> N1, file_size |-> 1],
                [filename |-> N1, file_size |-> 2]>>

InitDup ==
    /\ zip_ok = TRUE
    /\ archive = DupArchive
    /\ csv_fs \in [Names -> DiskSizes]
    /\ \E p \in PqInit : pq_dirs = p.dirs /\ pq_files = p.files
    /\ \E sk \in BOOLEAN :
          self = [zip_path |-> "zip", csv_path |-> CsvDirName,
                  parquet_path |-> "pq", skip_existing |-> sk]
    /\ pc = "idle"
    /\ ret = "none"
    /\ calls = MaxCalls - 1
    /\ ex_futs = <<>>
    /\ cv_futs = <<>>
    /\ errlog = 0
    /\ prev_sizes = csv_fs

SpecDup == InitDup /\ [][Next]_vars

\* ------------------------------------------------------- the command line
\* main(): the arguments are parsed, input() waits at the confirmation
\* prompt, then unzipCsv2Parquet builds the pipeline and calls it once,
\* without override.
InitCli ==
    /\ zip_ok \in BOOLEAN
    /\ archive \in Archives
    /\ (~zip_ok => archive = <<>>)
    /\ csv_fs \in [Names -> DiskSizes]
    /\ \E p \in PqInit : pq_dirs = p.dirs /\ pq_files = p.files
    /\ \E sk \in BOOLEAN :
          self = [zip_path |-> "zip", csv_path |-> CsvDirName,
                  parquet_path |-> "pq", skip_existing |-> sk]
    /\ pc = "prompt"
    /\ ret = "none"
    /\ calls = MaxCalls - 1
    /\ ex_futs = <<>>
    /\ cv_futs = <<>>
    /\ errlog = 0
    /\ prev_sizes = csv_fs

\* Lines 219-221 return: a line was entered at the prompt; lines 181-182
\* build the pipeline object.
Confirm ==
    /\ pc = "prompt"
    /\ pc' = "idle"
    /\ UNCHANGED <<archive, zip_ok, csv_fs, pq_dirs, pq_files, self, ret, calls,
                   ex_futs, cv_futs, errlog, prev_sizes>>

\* CTRL+C at the prompt: input() raises KeyboardInterrupt; main() has no
\* handler around it and neither has the module, so the exception ends the
\* program.
PromptInterrupt ==
    /\ pc = "prompt"
    /\ pc' = "exited"
    /\ ret' = "KeyboardInterrupt"
    /\ UNCHANGED <<archive, zip_ok, csv_fs, pq_dirs, pq_files, self, calls,
                   ex_futs, cv_futs, errlog, prev_sizes>>

\* main() returns after the call, or the fault of the call leaves it.
Exit ==
    /\ pc \in {"returned", "raised"}
    /\ pc' = "exited"
    /\ UNCHANGED <<archive, zip_ok, csv_fs, pq_dirs, pq_files, self, ret, calls,
                   ex_futs, cv_futs, errlog, prev_sizes>>

\* The status the interpreter exits with: 0 when main() has returned; an
\* exception that leaves main() prints a traceback and gives a status other
\* than 0, for which 1 stands here.
ExitStatus(r) == IF r = "self" THEN 0 ELSE 1

NextCli ==
    \/ Confirm
    \/ PromptInterrupt
    \/ Call(None)
    \/ \E i \in DOMAIN ex_futs : StartExtract(i)
    \/ \E i \in DOMAIN ex_futs, ev \in {"ok", "fault", "interrupt"} : FinishExtract(i, ev)
    \/ EndExtract
    \/ BeginConvert
    \/ \E n \in DOMAIN cv_futs : StartConvert(n)
    \/ \E n \in DOMAIN cv_futs, ev \in {"ok", "interrupt"} : FinishConvert(n, ev)
    \/ EndConvert
    \/ Exit

SpecCli == InitCli /\ [][NextCli]_vars

\* ------------------------------------------------------------ properties
\* The futures of the stage the main process is in.
ExDone == {i \in DOMAIN ex_futs : pc = "extract" /\ ex_futs[i].st = "done"}
CvDone == {n \in DOMAIN cv_futs : pc = "convert" /\ cv_futs[n].st = "done"}

\* C1: no conversion task has started while an extraction task of the run is
\* pending or running: the two stages never overlap.
C1_StagesNeverOverlap ==
    (\E n \in DOMAIN cv_futs : cv_futs[n].st # "pending")
        => \A i \in DOMAIN ex_futs : ex_futs[i].st = "done"

\* C1 witness: a conversion task is running after a two-member extraction
\* stage in which a task failed.
C1_Witness ==
    /\ pc = "convert"
    /\ Len(ex_futs) >= 2
    /\ errlog >= 1
    /\ \E n \in DOMAIN cv_futs : cv_futs[n].st = "running"

\* C2: a stage is left only by returning normally, and only when every one
\* of its tasks has run to its end, whatever the tasks ended with: a task's
\* fault neither raises out of the stage nor leaves a sibling unstarted or
\* unfinished.
C2_PartialFailureIsolation ==
    [][/\ (pc = "extract" /\ pc' # "extract")
             => pc' = "extracted" /\ \A i \in DOMAIN ex_futs : ex_futs[i].st = "done"
       /\ (pc = "convert" /\ pc' # "convert")
             => pc' = "returned" /\ \A n \in DOMAIN cv_futs : cv_futs[n].st = "done"]_vars

\* C2 witness: the extraction stage has returned with two tasks ended, one of
\* them by a fault and the other not.
C2_Witness ==
    /\ pc = "extracted"
    /\ Len(ex_futs) = 2
    /\ errlog = 1
    /\ \A i \in DOMAIN ex_futs : ex_futs[i].st = "done"

\* C3 (as claimed): an extraction task that finds its destination missing
\* takes the extract branch, and having ended without a fault or interrupt
\* has left the destination with the recorded size.
C3_FreshDestinationExtracted ==
    \A i \in DOMAIN ex_futs :
        (pc = "extract" /\ ex_futs[i].seen = Absent)
            => /\ ex_futs[i].branch = "extract"
               /\ (ex_futs[i].st = "done" /\ ex_futs[i].exception = "none")
                     => csv_fs[archive[i].filename] # Absent

\* C4 (as claimed): with skip_existing false no task skips and every task
\* goes on to its write: every started extraction task is on the extract
\* branch, every started conversion task on the convert branch, and a
\* conversion task that read a non-empty source and was not interrupted has
\* written its destination.
C4_NoSkipRewritesAll ==
    ~self.skip_existing =>
        /\ \A i \in DOMAIN ex_futs :
              (pc = "extract" /\ ex_futs[i].st # "pending")
                  => ex_futs[i].branch = "extract"
        /\ \A n \in CvDone :
              /\ cv_futs[n].branch = "convert"
              /\ (csv_fs[n] # 0 /\ cv_futs[n].exception # "SystemExit")
                    => cv_futs[n].exception = "none"

\* C5: with skip_existing true, a task that starts while its destination
\* exists with a size other than the recorded one does not skip but goes on
\* to extract, and a task whose extraction ends without fault leaves the
\* destination with the recorded size.
C5_SizeMismatchReextracts ==
    [][\A i \in (DOMAIN ex_futs) \cap (DOMAIN ex_futs') :
          LET name == archive[i].filename
              size == archive[i].file_size
          IN /\ ( /\ pc = "extract" /\ self.skip_existing
                  /\ ex_futs[i].st = "pending" /\ ex_futs'[i].st # "pending"
                  /\ csv_fs[name] \notin {Absent, size} )
                    => ex_futs'[i].st = "running" /\ ex_futs'[i].branch = "extract"
             /\ ( /\ pc = "extract"
                  /\ ex_futs[i].st = "running" /\ ex_futs'[i].st = "done"
                  /\ ex_futs'[i].exception = "none" )
                    => csv_fs'[name] = size]_vars

\* C5 witness: with skip_existing true a task that found a destination of
\* another size has extracted, and the destination has the recorded size.
C5_Witness ==
    /\ self.skip_existing
    /\ \E i \in ExDone :
          /\ ex_futs[i].seen \notin {Absent, archive[i].file_size}
          /\ ex_futs[i].branch = "extract"
          /\ ex_futs[i].exception = "none"
          /\ csv_fs[archive[i].filename] = archive[i].file_size

\* C6 (as claimed): in a second run of the extraction stage with
\* skip_existing true every task that has ended took the skip branch, and the
\* sizes of the extraction directory are those the first run left.
C6_IdempotentRerun ==
    (calls >= 2 /\ self.skip_existing /\ pc = "extract")
        => /\ csv_fs = prev_sizes
           /\ \A i \in ExDone : ex_futs[i].branch = "skip"

\* C7 (as claimed): a conversion task that found no destination, read a
\* non-empty source and was not interrupted ends without a fault, with the
\* destination written and its parent directory in place.
C7_FreshDestinationConverted ==
    \A n \in CvDone :
        (cv_futs[n].seen = "absent" /\ csv_fs[n] # 0
            /\ cv_futs[n].exception # "SystemExit")
            => /\ cv_futs[n].exception = "none"
               /\ pq_files[ParquetFile(self.parquet_path, n)] # "absent"
               /\ ParentDir(ParquetFile(self.parquet_path, n)) \in pq_dirs

\* A task of the current stage was interrupted: its function ran sys.exit(0).
Interrupted ==
    \/ \E i \in ExDone : ex_futs[i].exception = "SystemExit"
    \/ \E n \in CvDone : cv_futs[n].exception = "SystemExit"

\* C8 (as claimed): once a task has been interrupted the process is gone: no
\* task starts or ends, the stage is not left and no stage begins.
C8_InterruptTerminates ==
    [][Interrupted => UNCHANGED <<ex_futs, cv_futs, pc>>]_vars

\* Faults of the archive, the disk or the source file.
OrdinaryFaults == {"FileNotFoundError", "BadZipFile", "EmptyDataError", "OSError"}

\* C9 (as claimed): no ordinary fault leaves a task function: in particular no
\* future holds a fault of the archive member or of the source file.
C9_NoFaultPastBoundary ==
    /\ \A i \in ExDone : ex_futs[i].exception \notin {"BadZipFile"}
    /\ \A n \in CvDone : cv_futs[n].exception \notin {"EmptyDataError"}

\* C9 (amended): an ordinary fault is not caught by the task function: it
\* leaves the function as an exception, the pool stores it in the task's
\* future and no value is returned; a skipped extraction returns True, a
\* successful extraction and a skipped or successful conversion return None.
C9_FaultsPropagateToFuture ==
    /\ \A i \in ExDone :
          /\ ex_futs[i].branch = "stat_raises"
                => ex_futs[i].exception = "FileNotFoundError"
          /\ ex_futs[i].branch = "extract"
                => ex_futs[i].exception \in {"none", "BadZipFile", "SystemExit"}
          /\ ex_futs[i].exception # "none" => ex_futs[i].result = "none"
          /\ ex_futs[i].exception = "none"
                => ex_futs[i].result = (IF ex_futs[i].branch = "skip" THEN "True" ELSE "None")
    /\ \A n \in CvDone :
          /\ (cv_futs[n].branch = "convert" /\ csv_fs[n] = 0)
                => cv_futs[n].exception \in {"EmptyDataError", "SystemExit"}
          /\ cv_futs[n].exception \in {"none", "SystemExit"} \cup OrdinaryFaults
          /\ cv_futs[n].exception # "none" => cv_futs[n].result = "none"
          /\ cv_futs[n].exception = "none" => cv_futs[n].result = "None"

\* C9 witness: in one stage a task's future holds the fault of its
\* extraction and a skipped sibling returned True.
C9_Witness ==
    /\ \E i \in ExDone : ex_futs[i].exception = "BadZipFile"
    /\ \E i \in ExDone : ex_futs[i].branch = "skip" /\ ex_futs[i].result = "True"

\* C10: the orchestrator call raises only when the inventory cannot be read,
\* never because of a task; once the extraction stage has returned the
\* conversion stage is begun, whatever the tasks ended with; and a call that
\* completes returns the pipeline object.
C10_FailuresAbsorbed ==
    /\ ret # "task_exception"
    /\ pc = "raised" => (~zip_ok /\ ret = "BadZipFile")
    /\ pc = "extracted" => ENABLED BeginConvert
    /\ pc = "returned" => ret = "self"

\* C10 witness: the call has returned self after faults in both stages: both
\* extraction tasks and a conversion task were logged as failed.
C10_Witness ==
    /\ pc = "returned"
    /\ ret = "self"
    /\ Len(ex_futs) = 2
    /\ errlog >= 3

\* C11: a conversion task looks for, and writes, exactly the file
\* <output root>/<name of the source's immediate parent directory>/<stem of
\* the source>.parquet, the parent of a file directly in the input root being
\* the input root itself: the decision of a starting task reads that path,
\* and the write of a task that ends without fault changes that path and no
\* other.
C11_PathMirroring ==
    [][\A n \in (DOMAIN cv_futs) \cap (DOMAIN cv_futs') :
          LET parent == IF Len(n.dirs) = 0 THEN self.csv_path
                        ELSE n.dirs[Len(n.dirs)]
              mirror == [root |-> self.parquet_path, dir |-> parent,
                         stem |-> n.stem, ext |-> "parquet"]
          IN /\ (pc = "convert" /\ cv_futs[n].st = "pending"
                     /\ cv_futs'[n].st # "pending")
                   => cv_futs'[n].seen = pq_files[mirror]
             /\ (pc = "convert" /\ cv_futs[n].st = "running"
                     /\ cv_futs'[n].st = "done" /\ cv_futs'[n].exception = "none")
                   => /\ pq_files'[mirror] = PathStr(n)
                      /\ \A d \in DOMAIN pq_files \ {mirror} :
                            pq_files'[d] = pq_files[d]]_vars

\* C11 witness: the task of a source two directories deep has written the
\* file named after the nearer directory, and the path named after the
\* farther directory is still absent.
C11_Witness ==
    \E n \in CvDone :
        /\ n.dirs = <<"a", "x">>
        /\ cv_futs[n].exception = "none" /\ cv_futs[n].branch = "convert"
        /\ pq_files[[root |-> "pq", dir |-> "x", stem |-> "t", ext |-> "parquet"]]
              = PathStr(n)
        /\ pq_files[[root |-> "pq", dir |-> "a", stem |-> "t", ext |-> "parquet"]]
              = "absent"

\* C12: while the archive cannot be opened or its member list read, a call
\* ends by raising the fault of the inventory: the extraction stage is never
\* entered, no task is submitted, no conversion follows, and the extraction
\* directory is as it was.
C12_InventoryFailureFatal ==
    ~zip_ok =>
        /\ pc \in {"idle", "raised"}
        /\ DOMAIN ex_futs = {} /\ DOMAIN cv_futs = {}
        /\ csv_fs = prev_sizes
        /\ calls > 0 => (pc = "raised" /\ ret = "BadZipFile")

\* C12 witness: two calls on an unreadable archive have raised, next to an
\* extraction directory that holds a file.
C12_Witness ==
    /\ ~zip_ok
    /\ calls = 2
    /\ pc = "raised"
    /\ \E n \in DOMAIN csv_fs : csv_fs[n] > 0

\* C13: no step changes the archive path, the extraction directory or the
\* skip_existing flag of the pipeline object; its conversion directory
\* changes only in the step that begins a call; the conversion stage creates
\* the directory the object then holds; and a call that completes returns
\* the object.
C13_OverrideFrame ==
    [][/\ self'.zip_path = self.zip_path
       /\ self'.csv_path = self.csv_path
       /\ self'.skip_existing = self.skip_existing
       /\ self'.parquet_path # self.parquet_path
             => (calls' = calls + 1 /\ self'.parquet_path \in Roots)
       /\ (pc = "extracted" /\ pc' = "convert")
             => pq_dirs' = pq_dirs \cup {<<self.parquet_path>>}
       /\ pc' = "returned" => ret' = "self"]_vars

\* C13 witness: the second call, made with an override, has returned the
\* object after a conversion stage in the override directory.
C13_Witness ==
    /\ calls = 2
    /\ pc = "returned" /\ ret = "self"
    /\ self.parquet_path = "pq2" /\ <<"pq2">> \in pq_dirs
    /\ self.csv_path = CsvDirName /\ self.zip_path = "zip"
    /\ DOMAIN cv_futs # {}

\* C17: with skip_existing true, a conversion task that starts while its
\* destination exists ends in that very step, on the skip branch and
\* without a fault, and the step changes no file and no directory.
C17_ConversionSkip ==
    [][\A n \in (DOMAIN cv_futs) \cap (DOMAIN cv_futs') :
          ( /\ pc = "convert" /\ self.skip_existing
            /\ cv_futs[n].st = "pending" /\ cv_futs'[n].st # "pending"
            /\ pq_files[ParquetFile(self.parquet_path, n)] # "absent" )
              => /\ cv_futs'[n].st = "done"
                 /\ cv_futs'[n].branch = "skip"
                 /\ cv_futs'[n].exception = "none"
                 /\ pq_files' = pq_files /\ pq_dirs' = pq_dirs
                 /\ csv_fs' = csv_fs]_vars

\* C17 witness: a conversion task has skipped a destination that a task of
\* this or an earlier stage had written, and the file is as the task found it.
C17_Witness ==
    /\ self.skip_existing
    /\ \E n \in CvDone :
          /\ cv_futs[n].branch = "skip"
          /\ cv_futs[n].seen \notin {"absent", "old"}
          /\ pq_files[ParquetFile(self.parquet_path, n)] = cv_futs[n].seen

\* C14: when the input root of the conversion stage holds no file ending in
\* .csv (the root is missing or empty, or holds other files only), the stage
\* submits no task, logs no failure, raises nothing, can always go on to its
\* end, and returns.
C14_EmptyDiscovery ==
    (\A n \in DOMAIN csv_fs : n.ext # "csv" \/ csv_fs[n] = Absent) =>
        /\ DOMAIN cv_futs = {}
        /\ errlog = 0
        /\ pc \in {"extracted", "convert", "returned"}
        /\ pc = "extracted" => ENABLED BeginConvert
        /\ pc = "convert" => ENABLED EndConvert
        /\ pc = "returned" => ret = "self"

\* C14 witness: the stage has returned without a task from a tree that
\* holds files, none of them ending in .csv.
C14_Witness ==
    /\ pc = "returned"
    /\ DOMAIN cv_futs = {}
    /\ DOMAIN csv_fs # {}
    /\ \A n \in DOMAIN csv_fs : n.ext = "txt" /\ csv_fs[n] > 0

\* C15: in neither stage are more than MaxWorkers tasks running at once, and
\* while MaxWorkers tasks are running no pending task can start.
C15_BoundedParallelism ==
    /\ Cardinality({i \in DOMAIN ex_futs : ex_futs[i].st = "running"}) <= MaxWorkers
    /\ Cardinality({n \in DOMAIN cv_futs : cv_futs[n].st = "running"}) <= MaxWorkers
    /\ Cardinality({i \in DOMAIN ex_futs : ex_futs[i].st = "running"}) = MaxWorkers
          => \A i \in DOMAIN ex_futs : ~ENABLED StartExtract(i)
    /\ Cardinality({n \in DOMAIN cv_futs : cv_futs[n].st = "running"}) = MaxWorkers
          => \A n \in DOMAIN cv_futs : ~ENABLED StartConvert(n)

\* C15 witness: in the conversion stage that follows an extraction stage of
\* more than MaxWorkers tasks, MaxWorkers tasks are running and another waits.
C15_Witness ==
    /\ pc = "convert"
    /\ Len(ex_futs) > MaxWorkers
    /\ Cardinality({n \in DOMAIN cv_futs : cv_futs[n].st = "running"}) = MaxWorkers
    /\ \E n \in DOMAIN cv_futs : cv_futs[n].st = "pending"

\* C16 (as claimed): while the program waits at the confirmation prompt no
\* task exists and no file has changed, and a program ended by CTRL+C at the
\* prompt has exit status 0.
C16_PromptInterruptExitsZero ==
    /\ pc = "prompt"
          => (DOMAIN ex_futs = {} /\ DOMAIN cv_futs = {} /\ csv_fs = prev_sizes)
    /\ (pc = "exited" /\ ret = "KeyboardInterrupt") => ExitStatus(ret) = 0

C19_StageTermination ==
    /\ (pc = "extract") ~> (pc = "extracted")
    /\ (pc = "extracted") ~> (pc = "returned" /\ ret = "self")
    /\ [][/\ (pc = "extract" /\ \E i \in DOMAIN ex_futs : ex_futs[i].st # "done")
                 => pc' = "extract"
          /\ (pc = "convert" /\ \E n \in DOMAIN cv_futs : cv_futs[n].st # "done")
                 => pc' = "convert"]_vars

\* C19 witness: the call has returned after an extraction stage of two
\* tasks and a conversion stage of two tasks.
C19_Witness ==
    /\ pc = "returned" /\ ret = "self"
    /\ Len(ex_futs) = 2
    /\ Cardinality(DOMAIN cv_futs) = 2
    /\ \A n \in DOMAIN cv_futs : cv_futs[n].st = "done"

\* C20 (as claimed): no two tasks of a stage that are running at the same
\* time have the same destination, and the destination of a conversion task
\* that has written holds what was read from that task's own source.
C20_DistinctDestinations ==
    /\ \A i, j \in DOMAIN ex_futs :
          (pc = "extract" /\ i # j
              /\ ex_futs[i].st = "running" /\ ex_futs[j].st = "running")
            => archive[i].filename # archive[j].filename
    /\ \A n, m \in DOMAIN cv_futs :
          (pc = "convert" /\ n # m
              /\ cv_futs[n].st = "running" /\ cv_futs[m].st = "running")
            => ParquetFile(self.parquet_path, n) # ParquetFile(self.parquet_path, m)
    /\ \A n \in CvDone :
          (cv_futs[n].branch = "convert" /\ cv_futs[n].exception = "none")
            => pq_files[ParquetFile(self.parquet_path, n)] = PathStr(n)

====
